---------------------------- MODULE Spec2Model ----------------------------
(***************************************************************************)
(* A model of the transformers benchmark notebook (src/transformers.ipynb):*)
(* the Config record and its TFLOPs estimate, log_summary, launcher,       *)
(* run_bert / run_gpt, and the notebook's cells executed in order.         *)
(*                                                                         *)
(* Representation of values                                                *)
(*  - A Python string that the code splits or concatenates is a sequence   *)
(*    of text pieces (for config.gpus: of single characters).              *)
(*  - TLC's integers are 32 bit, so quantities are held in units that keep *)
(*    the code's arithmetic exact:                                         *)
(*      seq_len, hidden size, vocabulary size : units of 10^4, so that the *)
(*        division by 1e12 = (10^4)^3 of the cubic form `forward' cancels  *)
(*        and TFLOPs() is the integer computed below;                      *)
(*      memory fields of the metrics line : units of 40 MB (1/25 GB);      *)
(*      train_samples_per_second : hundredths.                             *)
(*    No input lies where floating point, not the exact value, decides a   *)
(*    rounding.                                                            *)
(*  - A printed line is the sequence of its pieces; a number printed with  *)
(*    '%.1f' is the three pieces integer part, point, decimal.             *)
(*  - A line of a log file is what log_summary can tell of it: which of    *)
(*    the two markers it holds, whether json.loads accepts it, and the     *)
(*    entries of the dict it then yields.                                  *)
(*  - AutoConfig.from_pretrained answers from `hub'; every model name the  *)
(*    notebook uses is known to it.                                        *)
(***************************************************************************)
EXTENDS Integers, Sequences, FiniteSets, TLC

VARIABLES
    hub,        \* the model hub: model name -> model specification
    config,     \* the Config passed to the call under way
    fs,         \* the files of the working directory: name -> lines
    logfile,    \* the log_filename passed to log_summary
    written,    \* the lines the latest training command wrote to its output
    stale,      \* the lines log.txt held when that command was started
    cmd,        \* the latest command handed to os.system
    trainenv,   \* NCCL_P2P_DISABLE as the latest training subprocess saw it
    stdout,     \* what the latest call printed, line by line
    exc,        \* the exception the latest call raised, or "none"
    ret,        \* the value the latest pure call returned
    heap,       \* the notebook's Config objects: object id -> Config
    globals,    \* the notebook's global names: name -> object id (0: unbound)
    environ,    \* os.environ["NCCL_P2P_DISABLE"] of the kernel
    pc          \* the position: a phase of a call, or the next notebook cell

vars == << hub, config, fs, logfile, written, stale, cmd, trainenv, stdout, exc, ret,
           heap, globals, environ, pc >>

-----------------------------------------------------------------------------
(* Bounds of the model *)

MaxDim == 2        \* model hyperparameters and seq_len range over 0..MaxDim
MaxGpuLen == 3     \* config.gpus has at most this many characters
MaxLines == 2      \* a log file has at most this many lines
MaxCalls == 2      \* run_bert / run_gpt calls in a row
MaxOut == 1        \* a training command writes at most this many lines

-----------------------------------------------------------------------------
(* Helpers *)

Max(S) == CHOOSE x \in S : \A y \in S : y <= x

SeqsUpTo(S, n) == UNION { [1..k -> S] : k \in 0..n }

RECURSIVE Count(_, _)
Count(s, ch) ==
    IF s = << >> THEN 0
    ELSE (IF Head(s) = ch THEN 1 ELSE 0) + Count(Tail(s), ch)

(* str.split(','): the pieces between commas; '' splits into [''] *)
RECURSIVE SplitFrom(_, _, _)
SplitFrom(s, sep, cur) ==
    IF s = << >> THEN << cur >>
    ELSE IF Head(s) = sep THEN << cur >> \o SplitFrom(Tail(s), sep, << >>)
    ELSE SplitFrom(Tail(s), sep, Append(cur, Head(s)))

Split(s, sep) == SplitFrom(s, sep, << >>)

(* str(True), str(False) as an f-string interpolates them *)
PyBool(b) == IF b THEN "True" ELSE "False"

-----------------------------------------------------------------------------
(* class Config *)

Config(model, seq_len, batch_size) ==
    [ model |-> model, seq_len |-> seq_len, batch_size |-> batch_size,
      bf16 |-> FALSE, fp16 |-> FALSE, optim |-> "adamw_hf",
      grad_ckpt |-> FALSE, grad_accum |-> 1, steps |-> 20,
      gpus |-> << "0" >>, ddp |-> FALSE, deepspeed |-> FALSE,
      ds_config |-> "" ]

AttrKeys == { "num_hidden_layers", "n_layer", "hidden_size", "n_embd",
              "d_model", "vocab_size" }

(* get = lambda *keys: max([getattr(spec, k) if hasattr(spec, k) else 0 ...]) *)
Get(spec, keys) ==
    Max({ IF k \in DOMAIN spec THEN spec[k] ELSE 0 : k \in keys })

ForwardWrongFfn(n, h, s, v) ==
    LET att == 4 * h * s * s + 8 * s * h * h
        ffn == 8 * s * h * h
        embed == 2 * s * h * v
    IN  n * (att + ffn) + embed

Forward(n, h, s, v) ==
    LET att == 4 * h * s * s + 8 * s * h * h
        ffn == 16 * s * h * h
        embed == 2 * s * h * v
    IN  n * (att + ffn) + embed

(* Config.TFLOPs: with h, s, v in units of 10^4 the division by 1e12 cancels *)
TFLOPs(self) ==
    LET spec == hub[self.model]
        n == Get(spec, { "num_hidden_layers", "n_layer" })
        h == Get(spec, { "hidden_size", "n_embd", "d_model" })
        s == self.seq_len
        v == Get(spec, { "vocab_size" })
        forward == Forward(n, h, s, v)
    IN  IF self.grad_ckpt THEN 4 * forward ELSE 3 * forward

-----------------------------------------------------------------------------
(* launcher *)

launcherDeepspeedFirst(cfg) ==
    IF cfg.deepspeed THEN << "deepspeed" >>
    ELSE IF cfg.ddp
         THEN << "python", "-m", "torch.distributed.launch",
                 "--nproc_per_node", ToString(Len(Split(cfg.gpus, ","))) >>
         ELSE << "python" >>

launcher(cfg) ==
    IF cfg.ddp
    THEN LET num_gpus == Len(Split(cfg.gpus, ","))
         IN  << "python", "-m", "torch.distributed.launch",
                "--nproc_per_node", ToString(num_gpus) >>
    ELSE IF cfg.deepspeed THEN << "deepspeed" >> ELSE << "python" >>

-----------------------------------------------------------------------------
(* Printing *)

(* n/d rounded to an integer, ties to even: the rounding of '%.1f' on a
   value that floating point holds exactly. n >= 0, d > 0. *)
RoundHalfEven(n, d) ==
    LET q == n \div d
        r2 == 2 * (n % d)
    IN  IF r2 > d THEN q + 1
        ELSE IF r2 < d THEN q
        ELSE IF q % 2 = 0 THEN q ELSE q + 1

(* '%.1f' % (num/den): the integer part, the point, one decimal *)
Fmt1(num, den) ==
    LET t == RoundHalfEven(10 * num, den)
    IN  << ToString(t \div 10), ".", ToString(t % 10) >>

-----------------------------------------------------------------------------
(* A line of a log file.  oom: the line contains 'CUDA out of memory';
   rt: it contains "{'train_runtime"; clean: once ' is replaced by " the
   whole line is one JSON object; m: that object's entries. *)

Required == { "init_mem_cpu_peaked_delta", "train_mem_gpu_alloc_delta",
              "train_mem_gpu_peaked_delta", "train_samples_per_second" }

Entries(D, cpu, alloc, peaked, r) ==
    [ k \in D |->
        CASE k = "init_mem_cpu_peaked_delta" -> cpu
          [] k = "train_mem_gpu_alloc_delta" -> alloc
          [] k = "train_mem_gpu_peaked_delta" -> peaked
          [] k = "train_samples_per_second" -> r
          [] OTHER -> 1 ]

TextLine(oom) ==
    [ oom |-> oom, rt |-> FALSE, clean |-> FALSE, m |-> Entries({}, 0, 0, 0, 0) ]

(* the metrics dict with text before it on the line, or not valid JSON *)
DirtyMetricsLine(oom) ==
    [ oom |-> oom, rt |-> TRUE, clean |-> FALSE, m |-> Entries({}, 0, 0, 0, 0) ]

MetricsLine(oom, D, cpu, alloc, peaked, r) ==
    [ oom |-> oom, rt |-> TRUE, clean |-> TRUE,
      m |-> Entries(D \cup { "train_runtime" }, cpu, alloc, peaked, r) ]

(* json.loads(l.replace('\'', '\"')) *)
JsonLoads(l) ==
    IF l.clean THEN [ exc |-> "none", val |-> l.m ]
    ELSE [ exc |-> "JSONDecodeError", val |-> l.m ]

-----------------------------------------------------------------------------
(* log_summary *)

OomMessage == << "Out of GPU memory, try a smaller batch size" >>

FailedMessage(log_filename) ==
    << "Failed. Check \"", log_filename, "\" to find error" >>

GpuMemGpuOnly(metrics) ==
    metrics["train_mem_gpu_alloc_delta"] + metrics["train_mem_gpu_peaked_delta"]

GpuMem(metrics) ==
    metrics["init_mem_cpu_peaked_delta"]
        + metrics["train_mem_gpu_alloc_delta"]
        + metrics["train_mem_gpu_peaked_delta"]

TflopsLineTotal(cfg, r, num_gpus) ==
    << "Per GPU TFLOPs\t\t: " >> \o Fmt1(r * TFLOPs(cfg), 100)

TflopsLine(cfg, r, num_gpus) ==
    << "Per GPU TFLOPs\t\t: " >> \o Fmt1(r * TFLOPs(cfg), 100 * num_gpus)

(* lines 156-164: the three prints of a parsed metrics line *)
PrintMetrics(cfg, metrics) ==
    LET gpu_mem == GpuMem(metrics)
        r == metrics["train_samples_per_second"]
        num_gpus == Len(Split(cfg.gpus, ","))
    IN  << << "Total samples / second\t: " >> \o Fmt1(r, 100),
           << "Per GPU memory (GB)\t: " >> \o Fmt1(gpu_mem, 25),
           TflopsLine(cfg, r, num_gpus) >>

(* the body of the loop for a line holding "{'train_runtime" *)
OnMetrics(cfg, l) ==
    LET loaded == JsonLoads(l)
    IN  IF loaded.exc # "none" THEN [ out |-> << >>, exc |-> loaded.exc ]
        ELSE IF ~(Required \subseteq DOMAIN loaded.val)
             THEN [ out |-> << >>, exc |-> "KeyError" ]
        ELSE [ out |-> PrintMetrics(cfg, loaded.val), exc |-> "none" ]

(* the for loop with a later matching line overriding an earlier one *)
RECURSIVE scan_keep_last(_, _, _, _)
scan_keep_last(cfg, log_filename, lines, found) ==
    IF lines = << >>
    THEN IF found.exc = "unset"
         THEN [ out |-> << FailedMessage(log_filename) >>, exc |-> "none" ]
         ELSE found
    ELSE LET l == Head(lines)
             now == IF l.oom THEN [ out |-> << OomMessage >>, exc |-> "none" ]
                    ELSE IF l.rt THEN OnMetrics(cfg, l)
                    ELSE found
         IN  scan_keep_last(cfg, log_filename, Tail(lines), now)

scan_last_match(cfg, log_filename, lines) ==
    scan_keep_last(cfg, log_filename, lines, [ out |-> << >>, exc |-> "unset" ])

(* the for loop with the two tests of a line in the other order *)
RECURSIVE scan_runtime_first(_, _, _)
scan_runtime_first(cfg, log_filename, lines) ==
    IF lines = << >>
    THEN [ out |-> << FailedMessage(log_filename) >>, exc |-> "none" ]
    ELSE LET l == Head(lines)
         IN  IF l.rt
             THEN OnMetrics(cfg, l)
             ELSE IF l.oom
             THEN [ out |-> << OomMessage >>, exc |-> "none" ]
             ELSE scan_runtime_first(cfg, log_filename, Tail(lines))

(* the for loop with the fallback message naming log.txt whatever the file *)
RECURSIVE scan_fixed_name(_, _, _)
scan_fixed_name(cfg, log_filename, lines) ==
    IF lines = << >>
    THEN [ out |-> << FailedMessage("log.txt") >>, exc |-> "none" ]
    ELSE LET l == Head(lines)
         IN  IF l.oom
             THEN [ out |-> << OomMessage >>, exc |-> "none" ]
             ELSE IF l.rt
             THEN OnMetrics(cfg, l)
             ELSE scan_fixed_name(cfg, log_filename, Tail(lines))

(* lines 151-165: the loop over the lines and the fallback after it.
   out: what is printed; exc: the exception that ends the call, if any *)
RECURSIVE scan_lines(_, _, _)
scan_lines(cfg, log_filename, lines) ==
    IF lines = << >>
    THEN [ out |-> << FailedMessage(log_filename) >>, exc |-> "none" ]
    ELSE LET l == Head(lines)
         IN  IF l.oom
             THEN [ out |-> << OomMessage >>, exc |-> "none" ]
             ELSE IF l.rt
             THEN OnMetrics(cfg, l)
             ELSE scan_lines(cfg, log_filename, Tail(lines))

(* log_summary(config, log_filename) with the files as they are at the call *)
log_summary(cfg, log_filename, files) ==
    LET lines == files[log_filename]
    IN  scan_lines(cfg, log_filename, lines)

-----------------------------------------------------------------------------
(* run_bert, run_gpt.  A command is the sequence of the pieces its f-string
   concatenates, blanks dropped. *)

Redirection == << ">", "log.txt", "2>&1" >>

DeepspeedArg(cfg) ==
    IF cfg.deepspeed THEN << "--deepspeed", cfg.ds_config >> ELSE << >>

bert_args(cfg) ==
    << "rm", "-rf", "/tmp/bert", ";", "export", "CUDA_VISIBLE_DEVICES=" >>
    \o cfg.gpus \o << ";" >> \o launcher(cfg)
    \o << "transformers/examples/pytorch/language-modeling/run_mlm.py",
          "--config_name", cfg.model,
          "--tokenizer_name", cfg.model,
          "--dataset_name", "wikitext",
          "--dataset_config_name", "wikitext-2-raw-v1",
          "--do_train",
          "--max_seq_length", ToString(cfg.seq_len),
          "--per_device_train_batch_size", ToString(cfg.batch_size),
          "--fp16", PyBool(cfg.fp16),
          "--bf16", PyBool(cfg.bf16),
          "--optim", cfg.optim,
          "--gradient_accumulation_steps", ToString(cfg.grad_accum),
          "--gradient_checkpointing", PyBool(cfg.grad_ckpt),
          "--max_steps", ToString(cfg.steps),
          "--output_dir", "/tmp/bert/",
          "--skip_memory_metrics", "False" >>

gpt_args(cfg) ==
    << "rm", "-rf", "/tmp/gpt", ";", "export", "CUDA_VISIBLE_DEVICES=" >>
    \o cfg.gpus \o << ";" >> \o launcher(cfg)
    \o << "transformers/examples/pytorch/language-modeling/run_clm.py",
          "--config_name", cfg.model,
          "--tokenizer_name", cfg.model,
          "--dataset_name", "wikitext",
          "--dataset_config_name", "wikitext-2-raw-v1",
          "--do_train",
          "--per_device_train_batch_size", ToString(cfg.batch_size),
          "--block_size", ToString(cfg.seq_len),
          "--learning_rate", "2e-5",
          "--max_steps", ToString(cfg.steps),
          "--fp16", PyBool(cfg.fp16),
          "--bf16", PyBool(cfg.bf16),
          "--optim", cfg.optim,
          "--gradient_accumulation_steps", ToString(cfg.grad_accum),
          "--gradient_checkpointing", PyBool(cfg.grad_ckpt),
          "--output_dir", "/tmp/gpt/",
          "--skip_memory_metrics", "False" >>

bert_cmd_redirect_first(cfg) ==
    bert_args(cfg) \o Redirection \o DeepspeedArg(cfg)

(* lines 210-230: the command run_bert builds *)
bert_cmd(cfg) ==
    bert_args(cfg) \o DeepspeedArg(cfg) \o Redirection

(* lines 487-508: the command run_gpt builds *)
gpt_cmd(cfg) ==
    gpt_args(cfg) \o DeepspeedArg(cfg) \o Redirection

(* the stream a line of the training launch is written to: the traceback
   that holds 'CUDA out of memory' goes to stderr, the rest to stdout *)
StreamOf(l) == IF l.oom THEN 2 ELSE 1

(* the pieces of a command that follow its i-th piece *)
After(command, i) == SubSeq(command, i + 1, Len(command))

InSeq(x, seq) == \E j \in 1..Len(seq) : seq[j] = x

(* what the shell's '> file' leaves in the file: '>' truncates it, and
   stderr goes there too when '2>&1' follows *)
ShellKept(command, i, output) ==
    LET merged == InSeq("2>&1", After(command, i))
    IN  SelectSeq(output, LAMBDA l : merged \/ StreamOf(l) = 1)

os_system_append(command, files, output) ==
    IF ~InSeq(">", command) THEN files
    ELSE LET i == CHOOSE j \in 1..Len(command) : command[j] = ">"
         IN  [ files EXCEPT ![command[i + 1]] = @ \o ShellKept(command, i, output) ]

(* os.system(cmd): the files once the shell has run the command to its end,
   the training launch having written `output' *)
os_system(command, files, output) ==
    IF ~InSeq(">", command) THEN files
    ELSE LET i == CHOOSE j \in 1..Len(command) : command[j] = ">"
         IN  [ files EXCEPT ![command[i + 1]] = ShellKept(command, i, output) ]

(* lines 231-232 and 509-510: os.system(cmd), then log_summary on log.txt.
   env: os.environ as the call finds it; output: what the launch writes *)
run_cmd(cfg, command, env, output) ==
    LET files == os_system(command, fs, output)
        res == log_summary(cfg, "log.txt", files)
    IN  /\ config' = cfg
        /\ cmd' = command
        /\ stale' = fs["log.txt"]
        /\ written' = output
        /\ trainenv' = env
        /\ fs' = files
        /\ logfile' = "log.txt"
        /\ stdout' = res.out
        /\ exc' = res.exc

run_bert(cfg, env, output) == run_cmd(cfg, bert_cmd(cfg), env, output)

run_gpt(cfg, env, output) == run_cmd(cfg, gpt_cmd(cfg), env, output)

-----------------------------------------------------------------------------
(* The inputs the specifications draw from *)

ModelNames == { "bert-large-uncased", "gpt2-medium", "gpt2-large", "gpt2-xl" }

GlobalNames == { "bert_1", "bert_2", "bert_3", "bert_4", "bert_5", "bert_6",
                 "gpt_1", "gpt_2", "mbert_1", "mbert_2", "mbert_3",
                 "mgpt_1", "mgpt_2" }

(* every model specification: any subset of the attributes, any values *)
ModelSpecs == UNION { [D -> 0..MaxDim] : D \in SUBSET AttrKeys }

(* a hub that answers every model name with the specification sp *)
HubOf(sp) == [ name \in ModelNames |-> sp ]

SmallSpec ==
    [ k \in { "num_hidden_layers", "hidden_size", "vocab_size" } |->
        CASE k = "num_hidden_layers" -> 2
          [] k = "hidden_size" -> 1
          [] OTHER -> 3 ]

GpuChars == { "0", "1", "," }

GpuStrings == SeqsUpTo(GpuChars, MaxGpuLen)

CpuVals == { 0, 30 }
AllocVals == { 110 }
PeakedVals == { 203, 460 }
RateVals == { 124, 1287 }

GoodLines ==
    { MetricsLine(FALSE, Required, c, a, p, r) :
        c \in CpuVals, a \in AllocVals, p \in PeakedVals, r \in RateVals }

(* a metrics line that lacks one of the four fields log_summary reads *)
LackingLines ==
    { MetricsLine(FALSE, Required \ { k }, 0, 110, 203, 124) : k \in Required }

LogLines ==
    { TextLine(FALSE), TextLine(TRUE),
      DirtyMetricsLine(FALSE), DirtyMetricsLine(TRUE),
      MetricsLine(TRUE, Required, 0, 110, 203, 124) }
    \cup GoodLines \cup LackingLines

Logs == SeqsUpTo(LogLines, MaxLines)

FileNames == { "log.txt", "old.txt" }

-----------------------------------------------------------------------------
(* What every specification starts from outside the part it exercises *)

Idle ==
    /\ fs = [ f \in FileNames |-> << >> ]
    /\ logfile = "log.txt"
    /\ written = << >>
    /\ stale = << >>
    /\ cmd = << >>
    /\ trainenv = "unset"
    /\ stdout = << >>
    /\ exc = "none"
    /\ ret = << >>
    /\ heap = << >>
    /\ globals = [ name \in GlobalNames |-> 0 ]
    /\ environ = "unset"

-----------------------------------------------------------------------------
(* SpecTFLOPs: config.TFLOPs() on every model specification *)

InitTFLOPs ==
    /\ hub \in { HubOf(sp) : sp \in ModelSpecs }
    /\ config \in { [ Config("gpt2-medium", s, 1) EXCEPT !.grad_ckpt = g ] :
                      s \in 0..MaxDim, g \in BOOLEAN }
    /\ Idle
    /\ pc = "call"

CallTFLOPs ==
    /\ pc = "call"
    /\ ret' = TFLOPs(config)
    /\ pc' = "done"
    /\ UNCHANGED << hub, config, fs, logfile, written, stale, cmd, trainenv,
                    stdout, exc,
                    heap, globals, environ >>

SpecTFLOPs == InitTFLOPs /\ [][CallTFLOPs]_vars

-----------------------------------------------------------------------------
(* SpecLauncher: launcher(config) on every gpus string and flag pair *)

InitLauncher ==
    /\ hub = HubOf(SmallSpec)
    /\ config \in { [ Config("bert-large-uncased", 1, 1)
                        EXCEPT !.gpus = g, !.ddp = d, !.deepspeed = ds ] :
                      g \in GpuStrings, d \in BOOLEAN, ds \in BOOLEAN }
    /\ Idle
    /\ pc = "call"

CallLauncher ==
    /\ pc = "call"
    /\ ret' = launcher(config)
    /\ pc' = "done"
    /\ UNCHANGED << hub, config, fs, logfile, written, stale, cmd, trainenv,
                    stdout, exc,
                    heap, globals, environ >>

SpecLauncher == InitLauncher /\ [][CallLauncher]_vars

-----------------------------------------------------------------------------
(* SpecSummary: log_summary(config, log_filename) on every log file *)

SummaryConfigs ==
    { [ Config("bert-large-uncased", s, 1) EXCEPT !.gpus = g, !.grad_ckpt = k ] :
        s \in 1..MaxDim, g \in { << "0" >>, << "0", ",", "1" >> },
        k \in BOOLEAN }

InitSummary ==
    /\ hub = HubOf(SmallSpec)
    /\ config \in SummaryConfigs
    /\ logfile \in FileNames
    /\ fs \in { [ f \in FileNames |-> IF f = logfile THEN lines ELSE << >> ] :
                 lines \in Logs }
    /\ written = << >>
    /\ stale = << >>
    /\ cmd = << >>
    /\ trainenv = "unset"
    /\ stdout = << >>
    /\ exc = "none"
    /\ ret = << >>
    /\ heap = << >>
    /\ globals = [ name \in GlobalNames |-> 0 ]
    /\ environ = "unset"
    /\ pc = "call"

CallLogSummary ==
    /\ pc = "call"
    /\ LET res == log_summary(config, logfile, fs)
       IN  /\ stdout' = res.out
           /\ exc' = res.exc
    /\ pc' = "done"
    /\ UNCHANGED << hub, config, fs, logfile, written, stale, cmd, trainenv, ret,
                    heap, globals, environ >>

SpecSummary == InitSummary /\ [][CallLogSummary]_vars

-----------------------------------------------------------------------------
(* Spec: any sequence of run_bert and run_gpt calls, on any config, the
   training launch writing any output.  pc counts the calls made. *)

TrainLines ==
    { TextLine(TRUE), DirtyMetricsLine(FALSE),
      MetricsLine(FALSE, Required, 30, 110, 203, 124) }

TrainOutputs == SeqsUpTo(TrainLines, MaxOut)

RunConfigs ==
    { [ Config("bert-large-uncased", 1, 1)
          EXCEPT !.gpus = IF d THEN << "0", ",", "1" >> ELSE << "0" >>,
                 !.ddp = d, !.deepspeed = ds, !.ds_config = dc ] :
        d \in BOOLEAN, ds \in BOOLEAN, dc \in { "", "ds_config_zero2.json" } }

Init ==
    /\ hub = HubOf(SmallSpec)
    /\ config = Config("bert-large-uncased", 1, 1)
    /\ Idle
    /\ pc = 0

RunBert ==
    /\ pc < MaxCalls
    /\ \E cfg \in RunConfigs, output \in TrainOutputs :
          run_bert(cfg, environ, output)
    /\ pc' = pc + 1
    /\ UNCHANGED << hub, ret, heap, globals, environ >>

RunGpt ==
    /\ pc < MaxCalls
    /\ \E cfg \in RunConfigs, output \in TrainOutputs :
          run_gpt(cfg, environ, output)
    /\ pc' = pc + 1
    /\ UNCHANGED << hub, ret, heap, globals, environ >>

Next == RunBert \/ RunGpt

Spec == Init /\ [][Next]_vars

-----------------------------------------------------------------------------
(* SpecNotebook: the notebook's code cells executed in order, the training
   launch of each run writing any output.  pc names the next cell.  A cell
   whose run raises is left at that statement; the next cell can still be
   executed.  The sizes are the notebook's literals. *)

NotebookLines ==
    { TextLine(FALSE), TextLine(TRUE), DirtyMetricsLine(FALSE),
      MetricsLine(FALSE, Required, 30, 110, 203, 7) }

NotebookOutputs == SeqsUpTo(NotebookLines, MaxOut)

CellOrder ==
    << "bert_1", "bert_2", "bert_3", "bert_4", "bert_5", "bert_6",
       "gpt_1", "gpt_2", "mbert_1", "mbert_2", "no_nvlink_bert", "mbert_3",
       "mgpt_1", "no_nvlink_gpt", "mgpt_2", "end" >>

Following(cell) ==
    CellOrder[1 + CHOOSE i \in 1..(Len(CellOrder) - 1) : CellOrder[i] = cell]

Zero2 == "transformers/tests/deepspeed/ds_config_zero2.json"

InitNotebook ==
    /\ hub = HubOf(SmallSpec)
    /\ config = Config("bert-large-uncased", 1, 1)
    /\ Idle
    /\ pc = "bert_1"

(* name = Config(...); run_bert(name) or run_gpt(name) *)
NewAndRun(name, cfg, bert) ==
    /\ pc = name
    /\ heap' = Append(heap, cfg)
    /\ globals' = [ globals EXCEPT ![name] = Len(heap) + 1 ]
    /\ \E output \in NotebookOutputs :
          IF bert THEN run_bert(cfg, environ, output)
                  ELSE run_gpt(cfg, environ, output)
    /\ pc' = Following(name)
    /\ UNCHANGED << hub, ret, environ >>

CellBert1 ==
    NewAndRun("bert_1", Config("bert-large-uncased", 128, 56), TRUE)

CellBert2 ==
    NewAndRun("bert_2",
              [ Config("bert-large-uncased", 128, 56) EXCEPT !.bf16 = TRUE ],
              TRUE)

CellBert3 ==
    NewAndRun("bert_3",
              [ Config("bert-large-uncased", 128, 80) EXCEPT !.bf16 = TRUE ],
              TRUE)

CellBert4 ==
    NewAndRun("bert_4",
              [ Config("bert-large-uncased", 128, 80)
                  EXCEPT !.bf16 = TRUE, !.optim = "adamw_apex_fused" ],
              TRUE)

CellBert5 ==
    NewAndRun("bert_5",
              [ Config("bert-large-uncased", 128, 76)
                  EXCEPT !.bf16 = TRUE, !.optim = "adamw_apex_fused",
                         !.grad_accum = 4, !.steps = 10 ],
              TRUE)

CellBert6 ==
    NewAndRun("bert_6",
              [ Config("bert-large-uncased", 128, 260)
                  EXCEPT !.bf16 = TRUE, !.optim = "adamw_apex_fused",
                         !.grad_accum = 4, !.grad_ckpt = TRUE, !.steps = 5 ],
              TRUE)

CellGpt1 ==
    NewAndRun("gpt_1", Config("gpt2-medium", 512, 6), FALSE)

CellGpt2 ==
    NewAndRun("gpt_2",
              [ Config("gpt2-medium", 512, 7)
                  EXCEPT !.bf16 = TRUE, !.optim = "adamw_apex_fused",
                         !.grad_accum = 4 ],
              FALSE)

CellMbert1 ==
    NewAndRun("mbert_1",
              [ Config("bert-large-uncased", 128, 76)
                  EXCEPT !.bf16 = TRUE, !.optim = "adamw_apex_fused",
                         !.grad_accum = 4, !.steps = 10,
                         !.gpus = << "0", ",", "1" >> ],
              TRUE)

(* mbert_2 = mbert_1: a second name of the same object *)
CellMbert2 ==
    /\ pc = "mbert_2"
    /\ LET id == globals["mbert_1"]
           objects == [ heap EXCEPT ![id].ddp = TRUE, ![id].batch_size = 70 ]
       IN  /\ globals' = [ globals EXCEPT !["mbert_2"] = id ]
           /\ heap' = objects
           /\ \E output \in NotebookOutputs :
                 run_bert(objects[id], environ, output)
    /\ pc' = Following("mbert_2")
    /\ UNCHANGED << hub, ret, environ >>

CellNoNvlinkBert ==
    /\ pc = "no_nvlink_bert"
    /\ \E output \in NotebookOutputs :
          run_bert(heap[globals["mbert_2"]], "1", output)
    /\ environ' = IF exc' = "none" THEN "0" ELSE "1"
    /\ pc' = Following("no_nvlink_bert")
    /\ UNCHANGED << hub, ret, heap, globals >>

(* mbert_3 = mbert_1: again the same object *)
CellMbert3 ==
    /\ pc = "mbert_3"
    /\ LET id == globals["mbert_1"]
           objects == [ heap EXCEPT ![id].deepspeed = TRUE,
                                    ![id].ds_config = Zero2,
                                    ![id].batch_size = 128 ]
       IN  /\ globals' = [ globals EXCEPT !["mbert_3"] = id ]
           /\ heap' = objects
           /\ \E output \in NotebookOutputs :
                 run_bert(objects[id], environ, output)
    /\ pc' = Following("mbert_3")
    /\ UNCHANGED << hub, ret, environ >>

CellMgpt1 ==
    NewAndRun("mgpt_1",
              [ Config("gpt2-large", 1024, 2)
                  EXCEPT !.bf16 = TRUE, !.optim = "adamw_apex_fused",
                         !.grad_accum = 16, !.gpus = << "0", ",", "1" >>,
                         !.steps = 5, !.deepspeed = TRUE, !.ds_config = Zero2 ],
              FALSE)

CellNoNvlinkGpt ==
    /\ pc = "no_nvlink_gpt"
    /\ \E output \in NotebookOutputs :
          run_gpt(heap[globals["mgpt_1"]], "1", output)
    /\ environ' = IF exc' = "none" THEN "0" ELSE "1"
    /\ pc' = Following("no_nvlink_gpt")
    /\ UNCHANGED << hub, ret, heap, globals >>

CellMgpt2 ==
    NewAndRun("mgpt_2",
              [ Config("gpt2-xl", 1024, 1)
                  EXCEPT !.bf16 = TRUE, !.optim = "adamw_apex_fused",
                         !.grad_accum = 16, !.gpus = << "0", ",", "1" >>,
                         !.deepspeed = TRUE, !.steps = 5, !.ds_config = Zero2 ],
              FALSE)

NextNotebook ==
    \/ CellBert1 \/ CellBert2 \/ CellBert3 \/ CellBert4 \/ CellBert5
    \/ CellBert6 \/ CellGpt1 \/ CellGpt2 \/ CellMbert1 \/ CellMbert2
    \/ CellNoNvlinkBert \/ CellMbert3 \/ CellMgpt1 \/ CellNoNvlinkGpt
    \/ CellMgpt2

SpecNotebook == InitNotebook /\ [][NextNotebook]_vars

-----------------------------------------------------------------------------
(* Vocabulary of the properties *)

HasMarker(l) == l.oom \/ l.rt

(* the index of the first line holding either marker, 0 when there is none *)
FirstMarker(lines) ==
    IF \E i \in 1..Len(lines) : HasMarker(lines[i])
    THEN CHOOSE i \in 1..Len(lines) :
            /\ HasMarker(lines[i])
            /\ \A j \in 1..(i - 1) : ~HasMarker(lines[j])
    ELSE 0

(* a well-formed metrics line: the trainer's dict of numbers alone on the
   line, with the four fields log_summary reads; such a line holds no
   'CUDA out of memory' *)
WellFormed(l) ==
    /\ l.rt
    /\ ~l.oom
    /\ l.clean
    /\ Required \subseteq DOMAIN l.m

(* the number of comma-separated entries of a gpus string *)
NumEntries(gpus) == Count(gpus, ",") + 1

TheLog == fs[logfile]

Summarised == pc = "done"

ThreeMetricLines ==
    /\ Len(stdout) = 3
    /\ Head(stdout[1]) = "Total samples / second\t: "
    /\ Head(stdout[2]) = "Per GPU memory (GB)\t: "
    /\ Head(stdout[3]) = "Per GPU TFLOPs\t\t: "

-----------------------------------------------------------------------------
(* C1: when the first line of the log that holds either marker is a
   well-formed metrics line, log_summary prints exactly three lines, in
   this order: 'Total samples / second' with r = train_samples_per_second
   of that line, 'Per GPU memory (GB)', and 'Per GPU TFLOPs' with
   r * config.TFLOPs() / num_gpus, num_gpus being the number of
   comma-separated entries of config.gpus. *)
C1_MetricsOfFirstMarker ==
    LET i == FirstMarker(TheLog)
    IN  (Summarised /\ i # 0 /\ WellFormed(TheLog[i])) =>
            LET r == TheLog[i].m["train_samples_per_second"]
            IN  /\ exc = "none"
                /\ ThreeMetricLines
                /\ stdout[1] = << "Total samples / second\t: " >> \o Fmt1(r, 100)
                /\ stdout[3] = << "Per GPU TFLOPs\t\t: " >>
                                 \o Fmt1(r * TFLOPs(config),
                                         100 * NumEntries(config.gpus))

C1_Witness ==
    /\ Summarised
    /\ Len(TheLog) = 2
    /\ ~HasMarker(TheLog[1])
    /\ WellFormed(TheLog[2])
    /\ config.gpus = << "0", ",", "1" >>
    /\ ThreeMetricLines
    /\ stdout[3] # << "Per GPU TFLOPs\t\t: ", "0", ".", "0" >>

-----------------------------------------------------------------------------
(* C2: Config.TFLOPs() * 1e12 = k * (n * (4*h*s^2 + 24*s*h^2) + 2*s*h*v),
   with s = seq_len, n the largest of num_hidden_layers / n_layer, h the
   largest of hidden_size / n_embd / d_model, v = vocab_size, an absent
   attribute counting as 0, k = 4 with grad_ckpt and 3 without; so the
   grad_ckpt estimate is 4/3 of the plain one. *)
AttrOrZero(spec, k) == IF k \in DOMAIN spec THEN spec[k] ELSE 0

C2_ClosedForm ==
    (pc = "done") =>
        LET spec == hub[config.model]
            s == config.seq_len
            n == Max({ AttrOrZero(spec, "num_hidden_layers"),
                       AttrOrZero(spec, "n_layer") })
            h == Max({ AttrOrZero(spec, "hidden_size"),
                       AttrOrZero(spec, "n_embd"),
                       AttrOrZero(spec, "d_model") })
            v == AttrOrZero(spec, "vocab_size")
            k == IF config.grad_ckpt THEN 4 ELSE 3
        IN  /\ ret = k * (n * (4 * h * s * s + 24 * s * h * h) + 2 * s * h * v)
            /\ 3 * TFLOPs([ config EXCEPT !.grad_ckpt = TRUE ])
                 = 4 * TFLOPs([ config EXCEPT !.grad_ckpt = FALSE ])

C2_Witness ==
    /\ pc = "done"
    /\ config.grad_ckpt
    /\ config.seq_len = 2
    /\ DOMAIN hub[config.model] = { "n_layer", "n_embd", "d_model", "vocab_size" }
    /\ hub[config.model]["n_layer"] = 2
    /\ hub[config.model]["n_embd"] = 1
    /\ hub[config.model]["d_model"] = 2
    /\ hub[config.model]["vocab_size"] = 1
    /\ ret = 4 * (2 * (4 * 2 * 4 + 24 * 2 * 4) + 2 * 2 * 2 * 1)

-----------------------------------------------------------------------------
(* C3: for a log file, the empty one included, in which no line holds
   'CUDA out of memory' and none holds "{'train_runtime", log_summary
   prints exactly one message, 'Failed. Check "<log_filename>" to find
   error' with the file name it was given, and nothing else. *)
C3_FailedFallback ==
    (Summarised /\ \A i \in 1..Len(TheLog) : ~HasMarker(TheLog[i])) =>
        /\ exc = "none"
        /\ stdout = << << "Failed. Check \"", logfile, "\" to find error" >> >>

C3_Witness ==
    /\ Summarised
    /\ logfile = "old.txt"
    /\ Len(TheLog) = 2
    /\ \A i \in 1..Len(TheLog) : ~HasMarker(TheLog[i])
    /\ stdout = << << "Failed. Check \"", "old.txt", "\" to find error" >> >>

-----------------------------------------------------------------------------
(* C4, as stated: whenever at least one line of the log holds 'CUDA out of
   memory', log_summary prints the out-of-memory message and neither the
   metric lines nor the fallback.  (A call that ends in an exception is
   not counted against the statement here.) *)
C4_OomAnywhere ==
    (Summarised /\ \E i \in 1..Len(TheLog) : TheLog[i].oom) =>
        /\ ~ThreeMetricLines
        /\ stdout # << FailedMessage(logfile) >>
        /\ exc = "none" => stdout = << OomMessage >>

(* C4, amended: whenever the first line of the log that holds either
   marker holds 'CUDA out of memory', log_summary prints the out-of-memory
   message and neither the metric lines nor the fallback. *)
C4_OomFirst ==
    LET i == FirstMarker(TheLog)
    IN  (Summarised /\ i # 0 /\ TheLog[i].oom) =>
            /\ exc = "none"
            /\ stdout = << << "Out of GPU memory, try a smaller batch size" >> >>

C4_Witness ==
    /\ Summarised
    /\ Len(TheLog) = 2
    /\ ~HasMarker(TheLog[1])
    /\ TheLog[2].oom
    /\ TheLog[2].rt
    /\ stdout = << OomMessage >>

-----------------------------------------------------------------------------
(* C8: the 'Per GPU memory (GB)' value log_summary prints is a function of
   the GPU memory fields of the metrics line only: a log whose metrics
   line differs in init_mem_cpu_peaked_delta alone prints the same value. *)
WithCpu(files, name, i, c) ==
    [ files EXCEPT ![name][i].m["init_mem_cpu_peaked_delta"] = c ]

C8_CpuFieldIgnored ==
    LET i == FirstMarker(TheLog)
    IN  (Summarised /\ i # 0 /\ WellFormed(TheLog[i])) =>
            \A c \in CpuVals :
                log_summary(config, logfile, WithCpu(fs, logfile, i, c)).out[2]
                    = stdout[2]

-----------------------------------------------------------------------------
(* C9: launcher(config) returns 'python -m torch.distributed.launch
   --nproc_per_node N', N the number of comma-separated entries of
   config.gpus, when config.ddp is true, whatever config.deepspeed is;
   otherwise 'deepspeed' when config.deepspeed is true; otherwise
   'python'. *)
C9_LauncherPrecedence ==
    (pc = "done") =>
        ret = IF config.ddp
              THEN << "python", "-m", "torch.distributed.launch",
                      "--nproc_per_node", ToString(NumEntries(config.gpus)) >>
              ELSE IF config.deepspeed THEN << "deepspeed" >>
              ELSE << "python" >>

C9_Witness ==
    /\ pc = "done"
    /\ config.ddp
    /\ config.deepspeed
    /\ config.gpus = << "0", ",", "1" >>
    /\ ret = << "python", "-m", "torch.distributed.launch",
                "--nproc_per_node", "2" >>

-----------------------------------------------------------------------------
(* C10: log_summary decides on the first line, in file order, that holds
   either marker and reads no line after it: the outcome is that of the
   log cut after that line; a well-formed metrics line before every
   out-of-memory line yields the metrics, an out-of-memory line before
   every metrics line yields the out-of-memory message, and so does one
   line holding both markers. *)
CutAfter(files, name, i) == [ files EXCEPT ![name] = SubSeq(files[name], 1, i) ]

C10_FirstMarkerDecides ==
    LET i == FirstMarker(TheLog)
    IN  (Summarised /\ i # 0) =>
            /\ [ out |-> stdout, exc |-> exc ]
                 = log_summary(config, logfile, CutAfter(fs, logfile, i))
            /\ WellFormed(TheLog[i]) => (exc = "none" /\ ThreeMetricLines)
            /\ TheLog[i].oom => (exc = "none" /\ stdout = << OomMessage >>)

C10_Witness ==
    /\ Summarised
    /\ Len(TheLog) = 2
    /\ WellFormed(TheLog[1])
    /\ TheLog[2].oom
    /\ ThreeMetricLines

-----------------------------------------------------------------------------
(* C5: the command run_bert and run_gpt build holds the argument
   '--deepspeed <ds_config>' if and only if config.deepspeed is true, and
   the redirection ' > log.txt 2>&1' is its last part, after every
   argument of the training script, the deepspeed one included, so that
   stdout and stderr of the training launch both go to log.txt. *)
C5_DeepspeedAndRedirection ==
    (pc > 0) =>
        LET n == Len(cmd)
        IN  /\ config.deepspeed =>
                  \E i \in 1..(n - 4) :
                      /\ cmd[i] = "--deepspeed"
                      /\ cmd[i + 1] = config.ds_config
            /\ ~config.deepspeed => ~InSeq("--deepspeed", cmd)
            /\ SubSeq(cmd, n - 2, n) = << ">", "log.txt", "2>&1" >>
            /\ \A i \in 1..(n - 3) : cmd[i] \notin { ">", "2>&1" }
            /\ fs["log.txt"] = written

C5_Witness ==
    /\ pc > 0
    /\ config.deepspeed
    /\ config.ds_config = "ds_config_zero2.json"
    /\ cmd[3] = "/tmp/bert"
    /\ SubSeq(cmd, Len(cmd) - 4, Len(cmd))
         = << "--deepspeed", "ds_config_zero2.json", ">", "log.txt", "2>&1" >>
    /\ written = << TextLine(TRUE) >>
    /\ fs["log.txt"] = written

-----------------------------------------------------------------------------
(* C6: in any sequence of run_bert and run_gpt calls, each call runs its
   command to the end and then summarises log.txt, and what the k-th call
   prints is derived from the lines the k-th training command wrote alone:
   every run overwrites log.txt, so no line of an earlier run decides a
   later summary. *)
C6_SummaryOfOwnLog ==
    (pc > 0) =>
        /\ fs["log.txt"] = written
        /\ [ out |-> stdout, exc |-> exc ]
             = scan_lines(config, "log.txt", written)

C6_Witness ==
    /\ pc = 2
    /\ stale = << TextLine(TRUE) >>
    /\ written = << MetricsLine(FALSE, Required, 30, 110, 203, 124) >>
    /\ exc = "none"
    /\ ThreeMetricLines

-----------------------------------------------------------------------------
(* C7: with the cells executed in order, the run_bert(mbert_3) call, which
   the notebook introduces as the DeepSpeed Zero 2 run, is started with
   the 'deepspeed' launcher, with '--deepspeed
   transformers/tests/deepspeed/ds_config_zero2.json' and per-device batch
   size 128. *)
PieceBefore(command, piece, k) ==
    LET i == CHOOSE j \in 1..Len(command) : command[j] = piece
    IN  command[i - k]

ArgOf(command, flag) ==
    LET i == CHOOSE j \in 1..Len(command) : command[j] = flag
    IN  command[i + 1]

MlmScript == "transformers/examples/pytorch/language-modeling/run_mlm.py"

C7_Mbert3UsesDeepspeedLauncher ==
    (pc = Following("mbert_3")) =>
        /\ PieceBefore(cmd, MlmScript, 1) = "deepspeed"
        /\ PieceBefore(cmd, MlmScript, 2) = ";"
        /\ ArgOf(cmd, "--deepspeed") = Zero2
        /\ ArgOf(cmd, "--per_device_train_batch_size") = "128"

-----------------------------------------------------------------------------
(* C11: log_summary never raises for an existing log file: for every
   sequence of lines, one that holds "{'train_runtime" after other text,
   is not valid JSON once ' is replaced by ", or lacks one of the four
   fields included, it returns after printing exactly one of the three
   outcomes: the out-of-memory message, the three metric lines, the
   'Failed. Check' message. *)
C11_NeverRaises ==
    Summarised =>
        /\ exc = "none"
        /\ \/ stdout = << OomMessage >>
           \/ ThreeMetricLines
           \/ stdout = << FailedMessage(logfile) >>

-----------------------------------------------------------------------------
(* C12: with the cells executed in order, the training subprocess sees
   NCCL_P2P_DISABLE = '1' only in the two runs placed between the
   assignments of '1' and '0' (run_bert(mbert_2) and run_gpt(mgpt_1) of
   the two NVLink cells); every other training run sees the variable
   unset or '0', whatever the outcome of the runs before it, a run whose
   log_summary raised before the variable was reset included. *)
NoNvlinkCells == { "no_nvlink_bert", "no_nvlink_gpt" }

(* the cell whose run was the latest one *)
JustRan(cell) == pc = Following(cell)

C12_P2PDisabledOnlyInNvlinkCells ==
    \A i \in 1..(Len(CellOrder) - 1) :
        JustRan(CellOrder[i]) =>
            IF CellOrder[i] \in NoNvlinkCells
            THEN trainenv = "1"
            ELSE trainenv \in { "unset", "0" }

=============================================================================
